---- MODULE Spec2Model ----
(***************************************************************************)
(* The plot orchestrator of ggplot/ggplot.py: the ggplot object, its deep  *)
(* copy, plot_build(), draw(), draw_legend() and render(), with the        *)
(* facet, panel, scale-registry, layer and guides collaborators it calls.  *)
(***************************************************************************)
EXTENDS Integers, Sequences, FiniteSets, TLC

\* ------------------------------------------------------------- bounds
MaxLayers == 2
MaxLevels == 2
MaxSeries == 2
MaxCalls == 2

\* ------------------------------------------------------------ helpers
Range(q) == {q[i] : i \in 1..Len(q)}

RECURSIVE Flatten(_)
Flatten(qq) == IF qq = <<>> THEN <<>> ELSE Head(qq) \o Flatten(Tail(qq))


SetMin(S) == CHOOSE v \in S : \A u \in S : v <= u
SetMax(S) == CHOOSE v \in S : \A u \in S : u <= v

\* 1-based rank of v among the values of S
Rank(v, S) == Cardinality({u \in S : u <= v})
\* the i-th smallest value of S
Nth(S, i) == CHOOSE v \in S : Rank(v, S) = i

\* ------------------------------------------------- tabular datasets
\* The user's data frame: one row per (f, h, s) cell, columns f, h (the
\* facetting variables), s (a series id) and y (a measurement).
RawRow(f, h, s) == [f |-> f, h |-> h, s |-> s, y |-> s + f - 1]

RawData(nf, nh, ns) ==
    [k \in 1..(nf * nh * ns) |->
        RawRow(((k - 1) \div (nh * ns)) + 1,
               (((k - 1) \div ns) % nh) + 1,
               ((k - 1) % ns) + 1)]

AllData == {RawData(nf, nh, ns) : nf \in 1..MaxLevels, nh \in 1..MaxLevels,
                                  ns \in 1..MaxSeries}

\* A row as it flows through the pipeline: the raw columns plus the derived
\* ones (PANEL, the aesthetics, group, the statistic's count, the bounds).
BuildRow(r) == [f |-> r.f, h |-> r.h, s |-> r.s, yraw |-> r.y,
                PANEL |-> 0, x |-> 0, y |-> 0, colour |-> 0, group |-> 0,
                count |-> 0, ymin |-> 0, ymax |-> 0, bounded |-> FALSE]

\* ------------------------------------------------------------- layers
Geoms == {"point", "area", "bar"}
GeomStat(g) == IF g = "bar" THEN "count" ELSE "identity"
GeomPosition(g) == IF g = "point" THEN "identity" ELSE "stack"
Layer(g, d) == [geom |-> g, stat |-> GeomStat(g), position |-> GeomPosition(g),
                data |-> d]

LayerLists(d) == UNION {[1..n -> {Layer(g, d) : g \in Geoms}] : n \in 0..MaxLayers}

\* ------------------------------------------------------------- facets
Facets == {[kind |-> "null", free |-> FALSE, nrow |-> 1, ncol |-> 1]}
          \cup {[kind |-> k, free |-> fr, nrow |-> 0, ncol |-> 0] :
                    k \in {"grid", "wrap"}, fr \in BOOLEAN}

\* ------------------------------------------------------------- scales
PositionAes == {"x", "y"}
Scale(a, k, e) == [aes |-> a, kind |-> k, explicit |-> e, trans |-> "identity",
                   domain |-> {}]
\* Scales.get_scales(aesthetic): the index of the scale of that aesthetic in
\* the registry, 0 when there is none
get_scales(reg, a) ==
    IF \E i \in 1..Len(reg) : reg[i].aes = a
    THEN CHOOSE i \in 1..Len(reg) :
            reg[i].aes = a /\ \A j \in 1..(i - 1) : reg[j].aes # a
    ELSE 0
non_position_scales(reg) == SelectSeq(reg, LAMBDA sc : sc.aes \notin PositionAes)
\* the scales the user added explicitly: any subset of x, y and color
ExplicitScales(E) ==
    SelectSeq(<<Scale("x", "continuous", TRUE), Scale("y", "continuous", TRUE),
                Scale("color", "discrete", TRUE)>>,
              LAMBDA sc : sc.aes \in E)

\* ------------------------------------------------- objects and memory
\* mem.attrs[obj][field] names the object whose cell holds the value of
\* obj.field; mem.cells[owner][field] is that value.  Two attributes that
\* name the same cell are the same Python object.
DeepFields == {"mapping", "facet", "labels", "layers", "guides", "scales", "theme"}
Fields == DeepFields \cup {"data", "plot_env"}
Get(mem, obj, field) == mem.cells[mem.attrs[obj][field]][field]
\* a mutation in place of the object that obj.field refers to
Put(mem, obj, field, v) == [mem EXCEPT !.cells[mem.attrs[obj][field]][field] = v]

\* ggplot.__init__
NewPlot(data, mapping, facet, layers, scales, theme) ==
    [data |-> data, plot_env |-> "aes_env", mapping |-> mapping,
     facet |-> facet, labels |-> "labels", layers |-> layers,
     guides |-> "guides", scales |-> scales, theme |-> theme]

shallow_with_scales == {"data", "plot_env", "scales"}
\* ggplot.__deepcopy__: the attributes copied by reference
shallow == {"data", "plot_env"}

\* ggplot.__deepcopy__: a new object "plot" whose attributes are fresh
\* copies of self's, except the shallow ones, which stay self's objects
deepcopy(mem) ==
    [attrs |-> [mem.attrs EXCEPT !["plot"] =
                    [k \in Fields |-> IF k \in shallow
                                      THEN mem.attrs["self"][k] ELSE "plot"]],
     cells |-> [mem.cells EXCEPT !["plot"] =
                    [k \in Fields |-> Get(mem, "self", k)]],
     axs |-> [mem.axs EXCEPT !["plot"] = mem.axs["self"]],
     fig |-> [mem.fig EXCEPT !["plot"] = mem.fig["self"]]]

\* ------------------------------------------------------ facet layout
FacetValues(all_data, col) ==
    {IF col = "f" THEN r.f ELSE r.h : r \in Range(Flatten(all_data))}

\* the rows and columns of a wrapped layout of n panels
WrapRows(n) == SetMax({d \in 1..n : d * d <= n /\ n % d = 0})

LayoutRow(k, ncol, fv, hv, sx, sy) ==
    [PANEL |-> k, ROW |-> ((k - 1) \div ncol) + 1, COL |-> ((k - 1) % ncol) + 1,
     f |-> fv, h |-> hv, SCALE_X |-> sx, SCALE_Y |-> sy]

\* facet.train_layout(all_data): the layout table, and the facet's nrow, ncol
train_layout(facet, all_data) ==
    LET F == FacetValues(all_data, "f")
        H == FacetValues(all_data, "h")
    IN  CASE facet.kind = "grid" ->
               LET nr == Cardinality(F)
                   nc == Cardinality(H)
               IN [nrow |-> nr, ncol |-> nc,
                   layout |-> [k \in 1..(nr * nc) |->
                       LET row == ((k - 1) \div nc) + 1
                           col == ((k - 1) % nc) + 1
                       IN LayoutRow(k, nc, Nth(F, row), Nth(H, col),
                                    IF facet.free THEN col ELSE 1,
                                    IF facet.free THEN row ELSE 1)]]
          [] facet.kind = "wrap" ->
               LET n == Cardinality(F)
                   nr == WrapRows(n)
                   nc == n \div nr
               IN [nrow |-> nr, ncol |-> nc,
                   layout |-> [k \in 1..n |->
                       LayoutRow(k, nc, Nth(F, k), 0,
                                 IF facet.free THEN k ELSE 1,
                                 IF facet.free THEN k ELSE 1)]]
          [] OTHER ->
               [nrow |-> 1, ncol |-> 1,
                layout |-> <<LayoutRow(1, 1, 0, 0, 1, 1)>>]

\* the panel a raw row belongs to
PanelOf(facet, layout, r) ==
    CASE facet.kind = "grid" ->
           (CHOOSE i \in 1..Len(layout) :
                layout[i].f = r.f /\ layout[i].h = r.h)
      [] facet.kind = "wrap" ->
           (CHOOSE i \in 1..Len(layout) : layout[i].f = r.f)
      [] OTHER -> 1

\* facet.map_layout(layout, layer_data, plot_data): every layer's rows, each
\* tagged with its panel id
map_layout(facet, layout, layer_data) ==
    [i \in 1..Len(layer_data) |->
        [j \in 1..Len(layer_data[i]) |->
            [BuildRow(layer_data[i][j]) EXCEPT
                !.PANEL = layout[PanelOf(facet, layout, layer_data[i][j])].PANEL]]]

\* ------------------------------------------------------- layer hooks
\* layer.compute_aesthetics(data, plot): the columns named by the aesthetics
\* x (column h), y (column y) and, when mapped, color (column s)
compute_aesthetics(d, mapping) ==
    [j \in 1..Len(d) |->
        [d[j] EXCEPT !.x = d[j].h, !.y = d[j].yraw,
                     !.colour = IF mapping.color THEN d[j].s ELSE 0]]

\* layer.add_group(data): the group of a row, from its discrete aesthetics
add_group(d) ==
    [j \in 1..Len(d) |-> [d[j] EXCEPT !.group = IF d[j].colour # 0 THEN d[j].colour ELSE 1]]

\* layer.map_statistic(data, plot): the statistic's output column becomes y
map_statistic(d, l) ==
    IF l.stat = "count" THEN [j \in 1..Len(d) |-> [d[j] EXCEPT !.y = d[j].count]]
    ELSE d

\* layer.reparameterise(data): bars and areas get ymin and ymax
reparameterise(d, l) ==
    IF l.geom \in {"bar", "area"}
    THEN [j \in 1..Len(d) |-> [d[j] EXCEPT !.ymin = 0, !.ymax = d[j].y, !.bounded = TRUE]]
    ELSE d

RECURSIVE StackBelow(_, _, _)
StackBelow(d, j, i) ==
    IF i = 0 THEN 0
    ELSE (IF d[i].PANEL = d[j].PANEL /\ d[i].x = d[j].x THEN d[i].y ELSE 0)
         + StackBelow(d, j, i - 1)

\* layer.adjust_position(data): stacking piles the rows of one x of one panel
adjust_position(d, l) ==
    IF l.position = "stack"
    THEN [j \in 1..Len(d) |->
            LET below == StackBelow(d, j, j - 1)
            IN [d[j] EXCEPT !.ymin = below, !.ymax = below + d[j].y,
                            !.y = below + d[j].y, !.bounded = TRUE]]
    ELSE d

\* ---------------------------------------------------------- statistics
KeyCode(r) == r.x * (MaxSeries + 2) + r.group

PanelRows(d, pid) == SelectSeq(d, LAMBDA r : r.PANEL = pid)

CountPanel(sub) ==
    LET codes == {KeyCode(r) : r \in Range(sub)}
    IN [i \in 1..Cardinality(codes) |->
          LET c == Nth(codes, i)
              first == CHOOSE j \in 1..Len(sub) :
                          KeyCode(sub[j]) = c /\ \A j2 \in 1..(j - 1) : KeyCode(sub[j2]) # c
          IN [sub[first] EXCEPT
                !.count = Cardinality({j \in 1..Len(sub) : KeyCode(sub[j]) = c})]]

\* panel.calculate_stats(data, layers): each layer's statistic over each
\* panel's rows, put together again in panel order
calculate_stats(data, layers, layout) ==
    [i \in 1..Len(data) |->
        Flatten([k \in 1..Len(layout) |->
            IF layers[i].stat = "count"
            THEN CountPanel(PanelRows(data[i], layout[k].PANEL))
            ELSE PanelRows(data[i], layout[k].PANEL)])]

\* ------------------------------------------------------------- panel
None == [aes |-> "None"]
ScaleOrNone(reg, a) == IF get_scales(reg, a) = 0 THEN None ELSE reg[get_scales(reg, a)]

NewPanel == [layout |-> <<>>, x_scales |-> <<>>, y_scales |-> <<>>, ranges |-> <<>>]

PositionValues(r, axis) ==
    IF axis = "x" THEN {r.x}
    ELSE {r.y} \cup (IF r.bounded THEN {r.ymin, r.ymax} ELSE {})

ScaleIndex(pnl, axis) == IF axis = "x" THEN pnl.SCALE_X ELSE pnl.SCALE_Y

\* the position values of the rows of the panels that use scale i of an axis
TrainingValues(layout, data, axis, i) ==
    UNION {PositionValues(r, axis) :
             r \in {q \in Range(Flatten(data)) :
                      \E k \in 1..Len(layout) :
                          layout[k].PANEL = q.PANEL /\ ScaleIndex(layout[k], axis) = i}}

TrainAxis(scs, layout, data, sc, axis) ==
    IF sc = None THEN scs
    ELSE LET n == SetMax({ScaleIndex(layout[k], axis) : k \in 1..Len(layout)})
             base == IF scs = <<>>
                     THEN [i \in 1..n |-> [kind |-> sc.kind, domain |-> {}]]
                     ELSE scs
         IN [i \in 1..Len(base) |->
               [base[i] EXCEPT !.domain = @ \cup TrainingValues(layout, data, axis, i)]]

\* panel.train_position(data, x_scale, y_scale): fold every panel's x and y
\* values into the panel's scales
train_position(panel, data, sx, sy) ==
    [panel EXCEPT !.x_scales = TrainAxis(@, panel.layout, data, sx, "x"),
                  !.y_scales = TrainAxis(@, panel.layout, data, sy, "y")]

MapValue(sc, v) == IF sc.kind = "discrete" THEN Rank(v, sc.domain) ELSE v

\* panel.map_position(data, x_scale, y_scale)
map_position(panel, data, sx, sy) ==
    [i \in 1..Len(data) |->
        [j \in 1..Len(data[i]) |->
            LET r == data[i][j]
                pnl == panel.layout[r.PANEL]
                rx == IF sx = None THEN r
                      ELSE [r EXCEPT !.x = MapValue(panel.x_scales[pnl.SCALE_X], @)]
            IN IF sy = None THEN rx
               ELSE [rx EXCEPT !.y = MapValue(panel.y_scales[pnl.SCALE_Y], @),
                               !.ymin = MapValue(panel.y_scales[pnl.SCALE_Y], @),
                               !.ymax = MapValue(panel.y_scales[pnl.SCALE_Y], @)]]]

\* panel.reset_scales(): forget what the position scales were trained on
reset_scales(panel) ==
    [panel EXCEPT !.x_scales = [i \in 1..Len(@) |-> [@[i] EXCEPT !.domain = {}]],
                  !.y_scales = [i \in 1..Len(@) |-> [@[i] EXCEPT !.domain = {}]]]

Limits(scs, i) ==
    IF scs = <<>> THEN <<0, 0>>
    ELSE IF scs[i].domain = {} THEN <<0, 0>>
    ELSE <<SetMin(scs[i].domain), SetMax(scs[i].domain)>>

\* breaks and labels: waived for a continuous scale, the levels of a discrete one
Breaks(scs, i) ==
    IF scs = <<>> THEN [waive |-> TRUE, values |-> {}]
    ELSE IF scs[i].kind = "discrete" THEN [waive |-> FALSE, values |-> scs[i].domain]
    ELSE [waive |-> TRUE, values |-> {}]

\* panel.train_ranges(): every panel's ranges, breaks and labels
train_ranges(panel) ==
    [panel EXCEPT !.ranges =
        [k \in 1..Len(panel.layout) |->
            [x |-> Limits(panel.x_scales, panel.layout[k].SCALE_X),
             y |-> Limits(panel.y_scales, panel.layout[k].SCALE_Y),
             x_breaks |-> Breaks(panel.x_scales, panel.layout[k].SCALE_X),
             y_breaks |-> Breaks(panel.y_scales, panel.layout[k].SCALE_Y),
             x_labels |-> Breaks(panel.x_scales, panel.layout[k].SCALE_X),
             y_labels |-> Breaks(panel.y_scales, panel.layout[k].SCALE_Y)]]]

\* ------------------------------------------------------ scale registry
TransformValue(trans, v) == IF trans = "reverse" THEN 0 - v ELSE v

\* Scales.transform_df(data): every scale's transform on its own column
transform_df(reg, d) ==
    LET T(a, v) == IF get_scales(reg, a) = 0 THEN v
                   ELSE TransformValue(reg[get_scales(reg, a)].trans, v)
    IN [j \in 1..Len(d) |->
          [d[j] EXCEPT !.x = T("x", @), !.y = T("y", @), !.colour = T("color", @)]]

RECURSIVE scales_add_missing(_, _)
\* scales_add_missing(plot, aesthetics): a default scale for each of the
\* aesthetics that has none in the registry
scales_add_missing(reg, aesthetics) ==
    IF aesthetics = <<>> THEN reg
    ELSE CHOOSE r \in {scales_add_missing(t, Tail(aesthetics)) :
                         t \in {IF get_scales(reg, Head(aesthetics)) = 0
                                THEN Append(reg, Scale(Head(aesthetics), "continuous", FALSE))
                                ELSE reg}} : TRUE

\* Scales.train_df(data) of the non-position scales: the values seen
train_df(reg, d) ==
    [i \in 1..Len(reg) |->
        IF reg[i].aes \in PositionAes THEN reg[i]
        ELSE [reg[i] EXCEPT !.domain = @ \cup {r.colour : r \in {q \in Range(d) : q.colour # 0}}]]

\* Scales.map_df(data) of the non-position scales: values become colours
map_df(reg, d) ==
    IF get_scales(reg, "color") = 0 THEN d
    ELSE [j \in 1..Len(d) |->
            IF d[j].colour = 0 THEN d[j]
            ELSE [d[j] EXCEPT !.colour = 10 + Rank(@, reg[get_scales(reg, "color")].domain)]]

\* ---------------------------------------------------------- plot_build
LayerHook(name, d, l, mapping) ==
    CASE name = "compute_aesthetics" -> compute_aesthetics(d, mapping)
      [] name = "map_statistic" -> map_statistic(d, l)
      [] name = "reparameterise" -> reparameterise(d, l)
      [] name = "adjust_position" -> adjust_position(d, l)

dlapply_short(name, data, layers, mapping) ==
    [i \in 1..(Len(data) - 1) |-> LayerHook(name, data[i], layers[i], mapping)]
\* dlapply(f): f on every (dataframe, layer) pair, in layer order
dlapply(name, data, layers, mapping) ==
    [i \in 1..Len(data) |-> LayerHook(name, data[i], layers[i], mapping)]

PerLayer(name, n) == [i \in 1..n |-> <<name, i>>]
Once(name) == <<<<name, 0>>>>

RECURSIVE TrainAll(_, _)
TrainAll(reg, data) ==
    IF data = <<>> THEN reg
    ELSE CHOOSE r \in {TrainAll(t, Tail(data)) : t \in {train_df(reg, Head(data))}} : TRUE

\* one statement of plot_build on the build state B: the copied plot's
\* memory, the per-layer data, the panel and the record of what ran
Statement(name, B) ==
    LET layers == Get(B.mem, "plot", "layers")
        reg == Get(B.mem, "plot", "scales")
        facet == Get(B.mem, "plot", "facet")
        n == Len(B.data)
        sx == ScaleOrNone(reg, "x")
        sy == ScaleOrNone(reg, "y")
    IN CASE name = "train_layout" ->
              LET t == train_layout(facet,
                           <<Get(B.mem, "plot", "data")>> \o B.data)
              IN [B EXCEPT !.panel.layout = t.layout,
                           !.mem = Put(B.mem, "plot", "facet",
                                       [facet EXCEPT !.nrow = t.nrow, !.ncol = t.ncol]),
                           !.log = @ \o Once(name)]
         [] name = "map_layout" ->
              [B EXCEPT !.data = map_layout(facet, B.panel.layout, B.data),
                        !.log = @ \o Once(name)]
         [] name \in {"compute_aesthetics", "map_statistic", "reparameterise",
                      "adjust_position"} ->
              [B EXCEPT !.data = dlapply(name, B.data, layers, Get(B.mem, "plot", "mapping")),
                        !.log = @ \o PerLayer(name, n)]
         [] name = "add_group" ->
              [B EXCEPT !.data = [i \in 1..n |-> add_group(B.data[i])],
                        !.log = @ \o PerLayer(name, n)]
         [] name = "transform_df" ->
              [B EXCEPT !.data = [i \in 1..n |-> transform_df(reg, B.data[i])],
                        !.log = @ \o PerLayer(name, n)]
         [] name = "train_position" ->
              [B EXCEPT !.panel = train_position(B.panel, B.data, sx, sy),
                        !.log = @ \o Once(name)]
         [] name = "map_position" ->
              [B EXCEPT !.data = map_position(B.panel, B.data, sx, sy),
                        !.log = @ \o Once(name)]
         [] name = "calculate_stats" ->
              [B EXCEPT !.data = calculate_stats(B.data, layers, B.panel.layout),
                        !.log = @ \o Once(name)]
         [] name = "scales_add_missing" ->
              [B EXCEPT !.mem = Put(B.mem, "plot", "scales",
                                    scales_add_missing(reg, <<"x", "y">>)),
                        !.log = @ \o Once(name)]
         [] name = "reset_scales" ->
              [B EXCEPT !.panel = reset_scales(B.panel), !.log = @ \o Once(name)]
         [] name = "train_df" ->
              IF Len(non_position_scales(reg)) = 0 THEN B
              ELSE [B EXCEPT !.mem = Put(B.mem, "plot", "scales", TrainAll(reg, B.data)),
                             !.log = @ \o PerLayer(name, n)]
         [] name = "map_df" ->
              IF Len(non_position_scales(reg)) = 0 THEN B
              ELSE [B EXCEPT !.data = [i \in 1..n |-> map_df(reg, B.data[i])],
                             !.log = @ \o PerLayer(name, n)]
         [] name = "train_ranges" ->
              [B EXCEPT !.panel = train_ranges(B.panel), !.log = @ \o Once(name)]

RECURSIVE Run(_, _)
Run(names, B) ==
    IF names = <<>> THEN B
    ELSE CHOOSE r \in {Run(Tail(names), b) : b \in {Statement(Head(names), B)}} : TRUE

plot_build_body_no_reset ==
    <<"train_layout", "map_layout", "compute_aesthetics", "add_group",
      "transform_df", "train_position", "map_position", "calculate_stats",
      "map_statistic", "scales_add_missing", "reparameterise", "adjust_position",
      "train_position", "map_position", "train_df", "map_df", "train_ranges">>

plot_build_body_late_backfill ==
    <<"train_layout", "map_layout", "compute_aesthetics", "add_group",
      "transform_df", "train_position", "map_position", "calculate_stats",
      "map_statistic", "reparameterise", "scales_add_missing", "adjust_position",
      "reset_scales", "train_position", "map_position", "train_df", "map_df",
      "train_ranges">>

\* the statements of plot_build after the copy, in program order
plot_build_body ==
    <<"train_layout", "map_layout", "compute_aesthetics", "add_group",
      "transform_df", "train_position", "map_position", "calculate_stats",
      "map_statistic", "scales_add_missing", "reparameterise", "adjust_position",
      "reset_scales", "train_position", "map_position", "train_df", "map_df",
      "train_ranges">>

NoLayersUnchecked(layers) == FALSE
\* `if not self.layers`
NoLayers(layers) == Len(layers) = 0

\* ggplot.plot_build(): (data, panel, plot), or the exception raised
plot_build(mem) ==
    IF NoLayers(Get(mem, "self", "layers"))
    THEN [exc |-> "GgplotError: No layers in plot", mem |-> mem, data |-> <<>>,
          panel |-> NewPanel, log |-> <<>>]
    ELSE LET copied == deepcopy(mem)
             plot_layers == Get(copied, "plot", "layers")
         IN Run(plot_build_body,
                [exc |-> "none", mem |-> copied,
                 data |-> [i \in 1..Len(plot_layers) |-> plot_layers[i].data],
                 panel |-> NewPanel, log |-> Once("deepcopy")])

\* ---------------------------------------------------------------- draw
\* something done to one axes: a layer drawn, a limit set, a strip, a legend
Event(op, layer, zorder, rows, sx, sy, arg) ==
    [op |-> op, layer |-> layer, zorder |-> zorder, rows |-> rows,
     sx |-> sx, sy |-> sy, arg |-> arg]
Call(op, arg) == Event(op, 0, 0, <<>>, 0, 0, arg)

PanelDataUnfiltered(d, pnl) == d
\* `d[d['PANEL'] == pnl['PANEL']]`
PanelData(d, pnl) == SelectSeq(d, LAMBDA r : r.PANEL = pnl.PANEL)

\* enumerate(zip(plot.layers, data), start=1): every layer drawn on the axes
DrawLayers(layers, data, pnl, xy_scales) ==
    LET n == IF Len(layers) < Len(data) THEN Len(layers) ELSE Len(data)
    IN [i \in 1..n |->
          Event("plot", i, i, PanelData(data[i], pnl), xy_scales.x, xy_scales.y,
                layers[i].geom)]

set_breaks(ranges) ==
    (IF ranges.x_breaks.waive THEN <<>> ELSE <<Call("set_xticks", ranges.x_breaks.values)>>)
    \o (IF ranges.y_breaks.waive THEN <<>> ELSE <<Call("set_yticks", ranges.y_breaks.values)>>)

set_labels(ranges) ==
    (IF ranges.x_labels.waive THEN <<>> ELSE <<Call("set_xticklabels", ranges.x_labels.values)>>)
    \o (IF ranges.y_labels.waive THEN <<>> ELSE <<Call("set_yticklabels", ranges.y_labels.values)>>)

set_axis_attributes(facet, pnl) ==
    <<Call("post_plot_callback",
           [xaxis |-> IF pnl.ROW = facet.nrow THEN "bottom" ELSE "none",
            yaxis |-> IF pnl.COL = 1 THEN "left" ELSE "none"])>>

draw_facet_label_either(facet, pnl) ==
    IF facet.kind = "grid" /\ (pnl.ROW # 1 \/ pnl.COL # facet.ncol) THEN <<>>
    ELSE IF facet.kind = "wrap" THEN <<Call("strip_top", pnl.f)>>
    ELSE (IF pnl.ROW = 1 THEN <<Call("strip_top", pnl.h)>> ELSE <<>>)
         \o (IF pnl.COL = facet.ncol THEN <<Call("strip_right", pnl.f)>> ELSE <<>>)

\* draw_facet_label(plot, pnl, ax, fig): the strips of one panel
draw_facet_label(facet, pnl) ==
    IF facet.kind = "grid" /\ (pnl.ROW # 1 /\ pnl.COL # facet.ncol) THEN <<>>
    ELSE IF facet.kind = "wrap" THEN <<Call("strip_top", pnl.f)>>
    ELSE (IF pnl.ROW = 1 THEN <<Call("strip_top", pnl.h)>> ELSE <<>>)
         \o (IF pnl.COL = facet.ncol THEN <<Call("strip_right", pnl.f)>> ELSE <<>>)

minor_grid_off(panel, pnl) ==
    (IF panel.x_scales[pnl.SCALE_X].kind = "discrete"
     THEN <<Call("grid_minor_off", "x")>> ELSE <<>>)
    \o (IF panel.y_scales[pnl.SCALE_Y].kind = "discrete"
        THEN <<Call("grid_minor_off", "y")>> ELSE <<>>)

\* the body of draw's loop for one (ax, pnl) pair
DrawPanel(facet, layers, data, panel, pnl) ==
    DrawLayers(layers, data, pnl, [x |-> panel.x_scales[pnl.SCALE_X],
                                   y |-> panel.y_scales[pnl.SCALE_Y]])
    \o <<Call("set_xlim", panel.ranges[pnl.PANEL].x),
         Call("set_ylim", panel.ranges[pnl.PANEL].y)>>
    \o set_breaks(panel.ranges[pnl.PANEL])
    \o set_labels(panel.ranges[pnl.PANEL])
    \o set_axis_attributes(facet, pnl)
    \o minor_grid_off(panel, pnl)
    \o (IF facet.kind \in {"grid", "wrap"} THEN draw_facet_label(facet, pnl) ELSE <<>>)

\* plt.subplots(nrow, ncol), flattened row by row: the new, empty axes
subplots(nrow, ncol) == [k \in 1..(nrow * ncol) |-> <<>>]

set_facet_spacing(facet) ==
    IF facet.kind = "wrap" THEN [wspace |-> 5, hspace |-> 20]
    ELSE [wspace |-> 5, hspace |-> 5]

\* ggplot.draw() after plot_build has returned B: the figure and its axes,
\* every panel drawn on its axes; plot.axs and plot.fig are set on the plot
\* that plot_build returned
draw(B) ==
    LET facet == Get(B.mem, "plot", "facet")
        layers == Get(B.mem, "plot", "layers")
        axs == subplots(facet.nrow, facet.ncol)
        layout == B.panel.layout
        pairs == IF Len(axs) < Len(layout) THEN Len(axs) ELSE Len(layout)
        drawn == [k \in 1..Len(axs) |->
                    IF k <= pairs
                    THEN DrawPanel(facet, layers, B.data, B.panel, layout[k])
                    ELSE axs[k]]
    IN [B EXCEPT !.mem.axs["plot"] = drawn,
                 !.mem.fig["plot"] = [made |-> TRUE, spacing |-> set_facet_spacing(facet)],
                 !.log = @ \o Once("subplots") \o Once("draw_panels")
                           \o Once("set_facet_spacing") \o Once("modify_axis")]

\* -------------------------------------------------------------- legend
\* guides.build(plot): a legend box when the plot has non-position scales
GuidesBuild(reg) == Len(non_position_scales(reg)) > 0

LegendPositions == {"right", "left", "top", "bottom"}
\* `lookup`: where to place which point of the legend box
lookup(position) ==
    CASE position = "right" -> [loc |-> 6, anchor |-> <<94, 50>>]
      [] position = "left" -> [loc |-> 7, anchor |-> <<7, 50>>]
      [] position = "top" -> [loc |-> 8, anchor |-> <<50, 95>>]
      [] position = "bottom" -> [loc |-> 9, anchor |-> <<50, 7>>]

\* the axes the legend box is added to: plot.axs[0]
LegendAxes == 1

draw_legend_every_axes(D) ==
    LET position == Get(D.mem, "plot", "theme").legend_position
    IN IF ~GuidesBuild(Get(D.mem, "plot", "scales"))
       THEN [D EXCEPT !.log = @ \o Once("guides_build")]
       ELSE IF position \notin LegendPositions
       THEN [D EXCEPT !.exc = "KeyError", !.log = @ \o Once("guides_build")]
       ELSE [D EXCEPT !.mem.axs["plot"] =
                          [k \in 1..Len(@) |->
                              Append(@[k], Call("add_artist",
                                                [box |-> lookup(position),
                                                 bbox_transform |-> "transFigure"]))],
                      !.log = @ \o Once("guides_build") \o Once("add_artist")]

\* ggplot.draw_legend(plot) on the outcome D of draw
draw_legend(D) ==
    LET position == Get(D.mem, "plot", "theme").legend_position
    IN IF ~GuidesBuild(Get(D.mem, "plot", "scales"))
       THEN [D EXCEPT !.log = @ \o Once("guides_build")]
       ELSE IF position \notin LegendPositions
       THEN [D EXCEPT !.exc = "KeyError", !.log = @ \o Once("guides_build")]
       ELSE [D EXCEPT !.mem.axs["plot"][LegendAxes] =
                          Append(@, Call("add_artist",
                                         [box |-> lookup(position),
                                          bbox_transform |-> "transFigure"])),
                      !.log = @ \o Once("guides_build") \o Once("add_artist")]

\* ------------------------------------------------------ the program
\* mem: the objects; pc: where the current call stands; ctx: inside render's
\* theme context; out: what the current call has produced so far; prev: the
\* layout of the last build that returned; ncalls: calls made; orig: the plot
\* as the user composed it
VARIABLES mem, pc, ctx, out, prev, ncalls, orig
vars == <<mem, pc, ctx, out, prev, ncalls, orig>>

Themes == {[legend_position |-> lp] : lp \in LegendPositions \cup {"middle"}}

\* the plots a user composes: data, layers, facet, explicit scales, theme.
\* Layouts and positions are explored over every dataset, layer list and
\* facet; scales and themes over every choice of explicit scales, colour
\* mapping and legend position.
Plots ==
    UNION {{NewPlot(d, [color |-> TRUE], fc, ls, ExplicitScales(E),
                    [legend_position |-> "right"]) :
                fc \in Facets, E \in {{}, {"y", "color"}}, ls \in LayerLists(d)} :
           d \in AllData}
    \cup
    {NewPlot(RawData(MaxLevels, MaxLevels, 1), [color |-> cm], fc,
             <<Layer(g, RawData(MaxLevels, MaxLevels, 1))>>, ExplicitScales(E), th) :
        cm \in BOOLEAN, g \in {"point", "bar"}, E \in SUBSET {"x", "y", "color"},
        th \in Themes,
        fc \in {f \in Facets : ~f.free}}

NoPlot == NewPlot(<<>>, [color |-> FALSE],
                  [kind |-> "null", free |-> FALSE, nrow |-> 1, ncol |-> 1],
                  <<>>, <<>>, [legend_position |-> "right"])
NoFigure == [made |-> FALSE, spacing |-> [wspace |-> 0, hspace |-> 0]]
NoOut == [exc |-> "none", data |-> <<>>, panel |-> NewPanel, log |-> <<>>]

\* what a build hands to drawing, as far as the layout goes
Summary(B) ==
    [layout |-> B.panel.layout, ranges |-> B.panel.ranges,
     panels |-> [i \in 1..Len(B.data) |->
                    [j \in 1..Len(B.data[i]) |-> B.data[i][j].PANEL]]]

\* the current call's build state, and its being stored back
Cur == [exc |-> out.exc, mem |-> mem, data |-> out.data, panel |-> out.panel,
        log |-> out.log]
Store(B) ==
    /\ mem' = B.mem
    /\ out' = [exc |-> B.exc, data |-> B.data, panel |-> B.panel, log |-> B.log]

\* the with-statement of render leaves the theme context, also by an exception
Leave(B) == IF ctx THEN [B EXCEPT !.log = @ \o Once("gg_context_exit")] ELSE B

\* the caller lets go of the copy it was handed
Dropped(m) ==
    [attrs |-> [m.attrs EXCEPT !["plot"] = [k \in Fields |-> "plot"]],
     cells |-> [m.cells EXCEPT !["plot"] = NoPlot],
     axs |-> [m.axs EXCEPT !["plot"] = <<>>],
     fig |-> [m.fig EXCEPT !["plot"] = NoFigure]]

Init ==
    /\ \E p \in Plots :
          /\ mem = [attrs |-> [o \in {"self", "plot"} |-> [k \in Fields |-> o]],
                    cells |-> [o \in {"self", "plot"} |-> IF o = "self" THEN p ELSE NoPlot],
                    axs |-> [o \in {"self", "plot"} |-> <<>>],
                    fig |-> [o \in {"self", "plot"} |-> NoFigure]]
          /\ orig = p
    /\ pc = "idle"
    /\ ctx = FALSE
    /\ out = NoOut
    /\ prev = [valid |-> FALSE, summary |-> Summary(NoOut)]
    /\ ncalls = 0

\* self.render() begins: plt.close("all"), then the theme's context
RenderEnter ==
    /\ pc = "idle" /\ ncalls < MaxCalls
    /\ pc' = "entered"
    /\ ctx' = TRUE
    /\ ncalls' = ncalls + 1
    /\ out' = [NoOut EXCEPT !.log = Once("close_all") \o Once("gg_context_enter")]
    /\ UNCHANGED <<mem, prev, orig>>

\* self.plot_build(): called by the user, or by draw() as its first statement
PlotBuild ==
    /\ \/ pc = "idle" /\ ncalls < MaxCalls /\ ncalls' = ncalls + 1
       \/ pc = "entered" /\ ncalls' = ncalls
    /\ \E B \in {plot_build(mem)} :
          /\ Store(IF B.exc = "none" THEN [B EXCEPT !.log = out.log \o @]
                   ELSE Leave([B EXCEPT !.log = out.log \o @]))
          /\ pc' = IF B.exc = "none" THEN "built" ELSE "raised"
          /\ ctx' = (ctx /\ B.exc = "none")
    /\ UNCHANGED <<prev, orig>>

\* the rest of self.draw(), after plot_build has returned
Draw ==
    /\ pc = "built"
    /\ \E D \in {draw(Cur)} : Store(D)
    /\ pc' = "drawn"
    /\ UNCHANGED <<ctx, prev, ncalls, orig>>

\* self.draw_legend(plot), and in render the end of the with-statement
DrawLegend ==
    /\ pc = "drawn"
    /\ \E L \in {draw_legend(Cur)} :
          /\ Store(Leave(L))
          /\ pc' = IF L.exc = "none" THEN "done" ELSE "raised"
    /\ ctx' = FALSE
    /\ UNCHANGED <<prev, ncalls, orig>>

\* the call returns to the user (or its exception reaches the user)
Return ==
    /\ pc \in {"built", "drawn", "done", "raised"} /\ ~ctx
    /\ pc' = "idle"
    /\ prev' = IF out.exc = "GgplotError: No layers in plot" THEN prev
               ELSE [valid |-> TRUE, summary |-> Summary(out)]
    /\ out' = NoOut
    /\ mem' = Dropped(mem)
    /\ UNCHANGED <<ctx, ncalls, orig>>

Next == RenderEnter \/ PlotBuild \/ Draw \/ DrawLegend \/ Return

Spec == Init /\ [][Next]_vars

\* ============================================================ claims
Built == pc \in {"built", "drawn", "done"}
Drawn == pc \in {"drawn", "done"}
NoLayersError == "GgplotError: No layers in plot"
LogHas(name) == \E i \in 1..Len(out.log) : out.log[i][1] = name
PlotLayers == Get(mem, "plot", "layers")
PlotFacet == Get(mem, "plot", "facet")
PlotScales == Get(mem, "plot", "scales")
AllRows == Range(Flatten(out.data))

\* C1: a plot without layers: plot_build raises GgplotError 'No layers in
\* plot', and nothing has happened by then: no copy of the plot, no facet,
\* panel or scale operation, no figure or axes.
C1_NoLayersFailsFirst ==
    (Len(Get(mem, "self", "layers")) = 0 /\ pc \notin {"idle", "entered"}) =>
        /\ pc = "raised"
        /\ out.exc = NoLayersError
        /\ \A i \in 1..Len(out.log) :
              out.log[i][1] \in {"close_all", "gg_context_enter", "gg_context_exit"}
        /\ mem.cells["plot"] = NoPlot
        /\ mem.axs["plot"] = <<>> /\ mem.fig["plot"] = NoFigure
        /\ out.data = <<>> /\ out.panel = NewPanel

C1_Witness ==
    /\ pc = "raised" /\ out.exc = NoLayersError
    /\ LogHas("gg_context_exit")
    /\ Len(orig.data) > 1

\* C2: whatever was called on the plot, the user's plot object is as it was
\* composed (layers, scales, facet, theme, guides, labels, mapping; no axs,
\* no fig); the copy shares exactly data and plot_env with it; and a build
\* finds the same layout, ranges and panel assignments as the build before.
C2_OriginalUntouched ==
    /\ \A k \in DeepFields : mem.cells["self"][k] = orig[k]
    /\ mem.attrs["self"] = [k \in Fields |-> "self"]
    /\ mem.axs["self"] = <<>> /\ mem.fig["self"] = NoFigure
    /\ Built => \A k \in Fields :
                    (mem.attrs["plot"][k] = "self") <=> (k \in {"data", "plot_env"})
    /\ (Built /\ prev.valid) => Summary(out) = prev.summary

C2_Witness ==
    /\ pc = "done" /\ prev.valid /\ ncalls = MaxCalls
    /\ PlotScales # orig.scales
    /\ PlotFacet # orig.facet
    /\ mem.axs["plot"] # <<>>
    /\ \E i \in 1..Len(PlotScales) : PlotScales[i].domain # {}

MappedAes == {"x", "y"} \cup (IF orig.mapping.color THEN {"color"} ELSE {})
DataKind(a) == IF a = "color" THEN "discrete" ELSE "continuous"
SharedY(k) ==
    UNION {{r.y} \cup (IF r.bounded THEN {r.ymin, r.ymax} ELSE {}) :
             r \in {q \in AllRows :
                      out.panel.layout[q.PANEL].SCALE_Y = out.panel.layout[k].SCALE_Y}}
SharedX(k) ==
    {r.x : r \in {q \in AllRows :
                     out.panel.layout[q.PANEL].SCALE_X = out.panel.layout[k].SCALE_X}}

\* C5: the ranges a build hands to drawing come from the second training
\* pass alone: a panel's scales hold exactly the position values of the
\* position-adjusted rows (nothing of the first pass is left), and the
\* panel's x and y ranges are their extents, so they cover every adjusted
\* position of the panel.
C5_RangesFromSecondPass ==
    Built => \A k \in 1..Len(out.panel.layout) :
        LET pnl == out.panel.layout[k]
            rng == out.panel.ranges[k]
        IN /\ out.panel.y_scales[pnl.SCALE_Y].domain = SharedY(k)
           /\ out.panel.x_scales[pnl.SCALE_X].domain = SharedX(k)
           /\ rng.y = <<SetMin(SharedY(k)), SetMax(SharedY(k))>>
           /\ rng.x = <<SetMin(SharedX(k)), SetMax(SharedX(k))>>
           /\ \A r \in {q \in AllRows : q.PANEL = pnl.PANEL} :
                 /\ rng.x[1] <= r.x /\ r.x <= rng.x[2]
                 /\ rng.y[1] <= r.y /\ r.y <= rng.y[2]
                 /\ r.bounded => rng.y[1] <= r.ymin /\ r.ymax <= rng.y[2]

\* a stack that ends above every raw value of its panel, in a plot whose
\* explicit y scale was trained in the first pass as well
C5_Witness ==
    /\ pc = "built"
    /\ get_scales(orig.scales, "y") # 0
    /\ \E k \in 1..Len(out.panel.layout) :
          /\ \A r \in {q \in AllRows : q.PANEL = k} : r.yraw < out.panel.ranges[k].y[2]
          /\ \E r \in {q \in AllRows : q.PANEL = k} :
                r.ymin > 0 /\ r.ymax = out.panel.ranges[k].y[2]

BuildStages ==
    {"deepcopy", "train_layout", "map_layout", "compute_aesthetics", "add_group",
     "transform_df", "train_position", "map_position", "calculate_stats",
     "map_statistic", "scales_add_missing", "reparameterise", "adjust_position",
     "reset_scales", "train_df", "map_df", "train_ranges"}
BuildLog == SelectSeq(out.log, LAMBDA e : e[1] \in BuildStages)
ExpectedLog(n, np) ==
    Once("deepcopy") \o Once("train_layout") \o Once("map_layout")
    \o PerLayer("compute_aesthetics", n) \o PerLayer("add_group", n)
    \o PerLayer("transform_df", n)
    \o Once("train_position") \o Once("map_position")
    \o Once("calculate_stats") \o PerLayer("map_statistic", n)
    \o Once("scales_add_missing")
    \o PerLayer("reparameterise", n) \o PerLayer("adjust_position", n)
    \o Once("reset_scales") \o Once("train_position") \o Once("map_position")
    \o (IF np THEN PerLayer("train_df", n) \o PerLayer("map_df", n) ELSE <<>>)
    \o Once("train_ranges")

\* C6: a build runs its stages in one order, each over all layers before
\* the next: layout, aesthetics, transform, position train and map,
\* statistics, backfill, reparameterise, position adjustment, reset, position
\* train and map again, non-position train (all layers) then map (all
\* layers), train_ranges; a colour is mapped by a scale that has seen the
\* values of every layer.
C6_StageOrder ==
    Built =>
        /\ BuildLog = ExpectedLog(Len(orig.layers),
                                  \E i \in 1..Len(orig.scales) :
                                      orig.scales[i].aes \notin PositionAes)
        /\ \A i \in 1..Len(PlotScales) :
              PlotScales[i].aes = "color" =>
                  /\ PlotScales[i].domain = {r.s : r \in {q \in AllRows : q.colour # 0}}
                  /\ \A r \in AllRows :
                        r.colour # 0 => r.colour = 10 + Rank(r.s, {q.s : q \in AllRows})

C6_Witness ==
    /\ pc = "built"
    /\ Len(orig.layers) = 2
    /\ \E i \in 1..Len(out.log) : out.log[i] = <<"map_df", 2>>
    /\ \E r \in AllRows : r.colour > 10 + 1

\* the GgplotErrors a call can end with
GgplotErrors == {NoLayersError}

\* C7: a theme whose legend_position is none of right, left, top, bottom
\* makes render fail with a GgplotError, whether the plot has a legend or not.
C7_BadLegendPositionFails ==
    (orig.theme.legend_position \notin LegendPositions /\ LogHas("gg_context_exit")) =>
        /\ pc = "raised"
        /\ out.exc \in GgplotErrors

Axs == mem.axs["plot"]
IsLegendBox(e) == e.op = "add_artist" /\ e.arg.bbox_transform = "transFigure"

\* C8: draw_legend on a plot without non-position scales returns the drawn
\* plot as it was; on a plot with a legend (and a known legend position) it
\* adds one anchored box, in figure coordinates, to the first panel's axes
\* and touches no other axes.
C8_LegendBox ==
    [][(pc = "drawn" /\ pc' \in {"done", "raised"}) =>
          IF \A i \in 1..Len(PlotScales) : PlotScales[i].aes \in PositionAes
          THEN pc' = "done" /\ mem' = mem /\ out'.exc = "none"
          ELSE /\ orig.theme.legend_position \in LegendPositions => pc' = "done"
               /\ pc' = "done" =>
                     /\ Len(mem'.axs["plot"]) = Len(Axs)
                     /\ Len(mem'.axs["plot"][1]) = Len(Axs[1]) + 1
                     /\ SubSeq(mem'.axs["plot"][1], 1, Len(Axs[1])) = Axs[1]
                     /\ IsLegendBox(mem'.axs["plot"][1][Len(Axs[1]) + 1])
                     /\ \A k \in 2..Len(Axs) : mem'.axs["plot"][k] = Axs[k]
                     /\ \A k \in 1..Len(Axs) : \A e \in 1..Len(Axs[k]) :
                           Axs[k][e].op # "add_artist"]_vars

C8_Witness ==
    /\ pc = "done"
    /\ Len(Axs) > 1
    /\ IsLegendBox(Axs[1][Len(Axs[1])])
    /\ orig.theme.legend_position = "bottom"

\* C9: draw goes through the layout table in order and, on each panel's
\* axes, through the layers in order: layer i is drawn once, with zorder i,
\* the rows of its built data of that panel and the panel's x and y scales;
\* limits come after the layers; every built row is drawn in one panel.
C9_DrawLoop ==
    Drawn =>
        /\ \A k \in 1..Len(out.panel.layout) :
              LET ev == Axs[k]
                  pnl == out.panel.layout[k]
                  n == Len(orig.layers)
              IN /\ Len(ev) >= n + 2
                 /\ \A i \in 1..n :
                       /\ ev[i].op = "plot" /\ ev[i].layer = i /\ ev[i].zorder = i
                       /\ ev[i].arg = orig.layers[i].geom
                       /\ ev[i].rows = SelectSeq(out.data[i], LAMBDA r : r.PANEL = pnl.PANEL)
                       /\ ev[i].sx = out.panel.x_scales[pnl.SCALE_X]
                       /\ ev[i].sy = out.panel.y_scales[pnl.SCALE_Y]
                 /\ \A e \in (n + 1)..Len(ev) : ev[e].op # "plot"
                 /\ ev[n + 1].op = "set_xlim" /\ ev[n + 1].arg = out.panel.ranges[pnl.PANEL].x
                 /\ ev[n + 2].op = "set_ylim" /\ ev[n + 2].arg = out.panel.ranges[pnl.PANEL].y
        /\ \A i \in 1..Len(out.data) : \A j \in 1..Len(out.data[i]) :
              Cardinality({k \in 1..Len(Axs) :
                              \E q \in 1..Len(Axs[k][i].rows) :
                                  Axs[k][i].rows[q] = out.data[i][j]}) = 1

C9_Witness ==
    /\ pc = "drawn"
    /\ Len(orig.layers) = 2
    /\ PlotFacet.free
    /\ \E k \in 1..Len(Axs) :
          /\ k > 1
          /\ Len(Axs[k][2].rows) > 0
          /\ Len(Axs[k][2].rows) < Len(out.data[2])
          /\ Axs[k][2].sy # Axs[1][2].sy

Strips(k, op) == {e \in 1..Len(Axs[k]) : Axs[k][e].op = op}

\* C10: strips: a wrapped panel has one top strip with its wrap value; a
\* grid panel has a top strip (the column value) exactly when it is in row 1
\* and a right strip (the row value) exactly when it is in the last column;
\* a plot without facets has no strips.
C10_FacetStrips ==
    Drawn => \A k \in 1..Len(out.panel.layout) :
        LET pnl == out.panel.layout[k]
            top == Strips(k, "strip_top")
            right == Strips(k, "strip_right")
        IN CASE orig.facet.kind = "wrap" ->
                  /\ Cardinality(top) = 1 /\ right = {}
                  /\ \A e \in top : Axs[k][e].arg = pnl.f
             [] orig.facet.kind = "grid" ->
                  /\ Cardinality(top) = (IF pnl.ROW = 1 THEN 1 ELSE 0)
                  /\ Cardinality(right) = (IF pnl.COL = PlotFacet.ncol THEN 1 ELSE 0)
                  /\ \A e \in top : Axs[k][e].arg = pnl.h
                  /\ \A e \in right : Axs[k][e].arg = pnl.f
             [] OTHER -> top = {} /\ right = {}

C10_Witness ==
    /\ pc = "drawn"
    /\ orig.facet.kind = "grid"
    /\ \E k \in 1..Len(Axs) : Strips(k, "strip_top") = {} /\ Strips(k, "strip_right") = {}
    /\ \E k \in 1..Len(Axs) : Strips(k, "strip_top") # {} /\ Strips(k, "strip_right") # {}
    /\ \E k \in 1..Len(Axs) : Strips(k, "strip_top") # {} /\ Strips(k, "strip_right") = {}

====
